---- MODULE Spec2Model ----
(***************************************************************************)
(* Pose capture session of the physiotherapy assessment front end:         *)
(* the CameraTest React component (frontend/src/components/CameraTest.tsx) *)
(* together with the part of App (frontend/src/App.tsx) that mounts it and *)
(* receives its hand-off.                                                  *)
(*                                                                         *)
(* React semantics used by the model:                                      *)
(*  - a handler's setState calls are committed together, followed by the   *)
(*    effects whose dependencies changed, as one step;                     *)
(*  - a function created by useCallback keeps the state values of the      *)
(*    render that created it (its closure); refs (.current) are read live; *)
(*  - setState on an unmounted component changes nothing;                  *)
(*  - unmounting (or switching to the error view) detaches the video and   *)
(*    canvas refs.                                                         *)
(* Time is abstracted: a pending timer or promise may complete at any      *)
(* moment.                                                                 *)
(***************************************************************************)
EXTENDS Integers, Sequences, FiniteSets, Bags, TLC

(* ----------------------------- bounds ---------------------------------- *)
\* initialization attempts (the mount plus "Try Again" clicks)
MaxAttempts == 2
\* detectPose invocation chains alive at the same time
MaxChains == 2
\* countdown intervals alive at the same time
MaxIntervals == 2
\* onComplete invocations recorded
MaxCompletes == 2
\* tests recommended in one tests message
MaxTests == 3
\* chat messages the user sends
MaxSends == 2
\* tests the user closes before opening another
MaxCloses == 2

(* ------------------------ program constants ---------------------------- *)
\* useState<number | null>(null): the null countdown
NullCountdown == -1
\* setCountdown(3)
CountdownStart == 3
\* keypoints of one MoveNet pose (indices 0..16 of adjacentKeyPoints)
NumKeypoints == 17
\* avgConfidence > 0.35, in hundredths like the confidences
CaptureThreshold == 35
\* kp.x / 640
FrameWidth == 640
\* kp.y / 480
FrameHeight == 480
\* normalized coordinates are held in thousandths
NormScale == 1000
\* keypoint.score > 0.3 in drawKeypoints and drawSkeleton, in hundredths
VisibleThreshold == 30
\* a keypoint without a score (kp.score undefined)
NoScore == -1

\* arrays are immutable, so the state holds them by reference:
\* 0 is null (or an empty result), a positive number names a pose array
NoKeypoints == 0
NoError == "none"

(* --------------------------- pose inputs ------------------------------- *)
KeypointNames ==
  << "nose", "left_eye", "right_eye", "left_ear", "right_ear",
     "left_shoulder", "right_shoulder", "left_elbow", "right_elbow",
     "left_wrist", "right_wrist", "left_hip", "right_hip",
     "left_knee", "right_knee", "left_ankle", "right_ankle" >>

\* a pose whose every keypoint sits at pixel (px, py); the first `hi`
\* keypoints have confidence `s`, the others are undetected (score 0)
MkPose(px, py, s, hi) ==
  [i \in 1..NumKeypoints |->
     [x |-> px, y |-> py, score |-> IF i <= hi THEN s ELSE 0,
      name |-> KeypointNames[i]]]

\* all 17 confidences 0.9
PoseHigh == MkPose(320, 240, 90, NumKeypoints)
\* 9 keypoints at 0.9, 8 undetected: mean 0.476
PosePartial == MkPose(160, 480, 90, 9)
\* all 17 confidences exactly 0.35
PoseEdge == MkPose(640, 120, 35, NumKeypoints)
\* all 17 confidences 0.36, just above the capture threshold
PoseJustAbove == MkPose(320, 240, 36, NumKeypoints)
\* all 17 confidences exactly 0.3, the drawing threshold
PoseFaint == MkPose(320, 240, VisibleThreshold, NumKeypoints)
\* nobody visible: all 17 confidences 0
PoseZero == MkPose(0, 0, 0, NumKeypoints)
\* the scenario keypoint: pixel (320, 240), confidence 0.8
PoseScenario == MkPose(320, 240, 80, NumKeypoints)
\* PoseHigh with the score of keypoint i replaced by s
WithScore(kps, i, s) == [kps EXCEPT ![i].score = s]
\* PoseHigh with the nose at 0.31, the left eye at exactly 0.3 and the
\* right eye without a score
PoseMixed ==
  WithScore(WithScore(WithScore(PoseHigh, 1, 31), 2, VisibleThreshold), 3, NoScore)

\* the pose arrays estimatePoses can produce, by reference
Keypoints(ref) ==
  << PoseHigh, PoseEdge, PosePartial, PoseJustAbove, PoseFaint, PoseZero,
     PoseScenario, PoseMixed >>[ref]
Poses == {1, 2}
\* every pose array of the table
AllPoses == 1..8
\* what one estimatePoses call resolves with: a pose, or nobody found
EstimateOutcomes == Poses \cup {NoKeypoints}

(* ---------------------------- the state -------------------------------- *)
VARIABLES
  mounted,              \* App: currentTest # null, CameraTest is mounted
  detector,             \* 0 = null, else the attempt whose model load made it
  countdown,            \* NullCountdown or 0..3
  isCapturing,
  capturedKeypoints,    \* NoKeypoints = null, else the captured array (by reference)
  isLoading,
  error,                \* NoError = null, else the message kind
  captureError,         \* "none" | "timeout" | "lowconf" | "nopose"
  detectionConfidence,  \* mean confidence in hundredths, as a fraction num/den
  isDetecting,
  animationFrameId,     \* 0 = null, 1 = the id of the latest requestAnimationFrame
  streamRef,            \* 0 = null, else the attempt that acquired it
  initTimeoutRef,       \* 0 = null, else the attempt that armed it
  video,                \* videoRef.current / canvasRef.current and what is drawn on it
  chains,               \* bag of live detectPose invocations
  captureTimeout,       \* 0 none, 1 armed (closure: nothing captured), 2 armed (closure: captured)
  intervals,            \* number of live countdown intervals
  initTimers,           \* attempts whose 30 s timer is pending
  attempts,             \* initializeSystem invocations
  streams,              \* per attempt: "none" | "live" | "stopped"
  analyzing,            \* App.handleTestComplete calls awaiting analyzeMovement
  completions,          \* the captured arrays handed to onComplete, in order
  closeCalls,           \* onClose invocations
  messages,             \* App: per chat message, the ids of the tests it carries
  completedTests,       \* App: ids of the analysed tests, in order
  currentTest,          \* App: 0 = null, else the id of the open test
  assessmentState,      \* App: "chat" | "testing" | "complete"
  appIsLoading,         \* App's own isLoading
  pending,              \* bag of handleTestComplete closures awaiting analyzeMovement
  routineTimers,        \* pending setTimeout(() => generateRoutine(), 2000)
  routineCalls,         \* generateRoutine invocations so far
  routineRequests       \* generateRoutine calls awaiting the API

compVars == << detector, countdown, isCapturing, capturedKeypoints, isLoading,
               error, captureError, detectionConfidence, isDetecting >>
refVars == << animationFrameId, streamRef, initTimeoutRef, video >>
asyncVars == << chains, captureTimeout, intervals, initTimers, attempts, streams >>
flowVars == << messages, completedTests, currentTest, assessmentState,
               appIsLoading, pending, routineTimers, routineCalls,
               routineRequests >>
appVars == << mounted, analyzing, completions, closeCalls, flowVars >>
vars == << compVars, refVars, asyncVars, appVars >>

\* setDetectionConfidence(0)
ZeroConfidence == [num |-> 0, den |-> 1]

\* a blank canvas: of a newly rendered main view, or after clearRect
BlankCanvas == [markers |-> {}, bones |-> {}]

NoVideo == [present |-> FALSE, srcObject |-> 0, ready |-> FALSE, canvas |-> BlankCanvas]
FreshVideo == [present |-> TRUE, srcObject |-> 0, ready |-> FALSE, canvas |-> BlankCanvas]

\* const [newDetector] = await Promise.all([initializeTensorFlow(), initializeCamera()])
NewAttempt == [tf |-> "pending", cam |-> "gum", pc |-> "all"]

\* a chat message without tests
NoTests == {}

\* the first test of the tests message is open: the greeting, the user's
\* message and the tests message are in the chat, CameraTest has mounted
\* and its mount effect has called initializeSystem
Init ==
  /\ mounted = TRUE
  /\ detector = 0
  /\ countdown = NullCountdown
  /\ isCapturing = FALSE
  /\ capturedKeypoints = NoKeypoints
  /\ isLoading = TRUE
  /\ error = NoError
  /\ captureError = "none"
  /\ detectionConfidence = ZeroConfidence
  /\ isDetecting = FALSE
  /\ animationFrameId = 0
  /\ streamRef = 0
  /\ initTimeoutRef = 1
  /\ video = FreshVideo
  /\ chains = EmptyBag
  /\ captureTimeout = 0
  /\ intervals = 0
  /\ initTimers = {1}
  /\ attempts = << NewAttempt >>
  /\ streams = << "none" >>
  /\ analyzing = 0
  /\ completions = << >>
  /\ closeCalls = 0
  /\ messages = << NoTests, NoTests, 1..MaxTests >>
  /\ completedTests = << >>
  /\ currentTest = 1
  /\ assessmentState = "testing"
  /\ appIsLoading = FALSE
  /\ pending = EmptyBag
  /\ routineTimers = 0
  /\ routineCalls = 0
  /\ routineRequests = 0

(* ------------------------ rendering and effects ------------------------ *)
\* the <video>/<canvas> pair exists only in the main view of a mounted
\* component; the error view (if (error) return ...) renders neither
VideoAfter(vid) ==
  IF ~mounted' \/ error' # NoError THEN NoVideo
  ELSE IF vid.present THEN vid ELSE FreshVideo

\* detectPose is re-created when one of its dependencies changed
DetectPoseChanged(fresh) ==
  \/ fresh
  \/ detector' # detector
  \/ isDetecting' # isDetecting
  \/ isCapturing' # isCapturing
  \/ countdown' # countdown
  \/ capturedKeypoints' # capturedKeypoints

\* what detectPose reads of the state of the render that created it
Closure(det, detecting, capturing, cd, captured) ==
  [detector |-> det # 0, isDetecting |-> detecting,
   atGate |-> capturing /\ cd = 0, captured |-> captured # NoKeypoints]

\* the closure of the detectPose of the render being committed
NewClosure ==
  Closure(detector', isDetecting', isCapturing', countdown', capturedKeypoints')

\* the closure of the detectPose of the current render
CurClosure ==
  Closure(detector, isDetecting, isCapturing, countdown, capturedKeypoints)

\* detectPose up to its first await: "scheduled" (requestAnimationFrame),
\* "inflight" (awaiting estimatePoses) or "dead" (plain return)
DetectPoseEntry(cl, vid) ==
  IF ~cl.detector \/ ~vid.present \/ ~cl.isDetecting
  THEN IF cl.isDetecting THEN "scheduled" ELSE "dead"
  ELSE IF ~vid.ready THEN "scheduled" ELSE "inflight"

\* an invocation chain: its closure, where it is, and whether its pending
\* animation frame request is the one held in animationFrameId.current
Chain(cl, ph, latest) == [cl |-> cl, phase |-> ph, latest |-> latest]

NotLatest(c) == [c EXCEPT !.latest = FALSE]

\* animationFrameId.current = requestAnimationFrame(detectPose) by an
\* invocation with closure cl, the other chains being cs
Requested(cl, cs) ==
  BagOfAll(NotLatest, cs) (+) SetToBag({Chain(cl, "scheduled", TRUE)})

\* a call of detectPose() with closure cl: the pair <<chains, animationFrameId>>
CallDetectPose(cl, vid, cs, anim) ==
  LET ph == DetectPoseEntry(cl, vid)
  IN IF ph = "dead" THEN << cs, anim >>
     ELSE IF ph = "scheduled" THEN << Requested(cl, cs), 1 >>
     ELSE << cs (+) SetToBag({Chain(cl, "inflight", FALSE)}), anim >>

\* useEffect "start pose detection when ready"
StartDetection(fresh, vid, cs, anim) ==
  IF /\ mounted'
     /\ DetectPoseChanged(fresh)
     /\ isDetecting' /\ detector' # 0 /\ anim = 0
  THEN CallDetectPose(NewClosure, vid, cs, anim)
  ELSE << cs, anim >>

\* useEffect "capture timeout protection": cleanup, then re-arm
CaptureTimeoutEffect(fresh, timer) ==
  IF ~mounted' THEN 0
  ELSE IF \/ fresh
          \/ isCapturing' # isCapturing
          \/ countdown' # countdown
          \/ capturedKeypoints' # capturedKeypoints
       THEN IF isCapturing' /\ countdown' = 0
            THEN IF capturedKeypoints' = NoKeypoints THEN 1 ELSE 2
            ELSE 0
       ELSE timer

\* commit of a render: refs, then the effects, in declaration order.
\* vid, cs, anim, timer are the values the handler itself left behind.
Commit(fresh, vid, cs, anim, timer) ==
  LET v == VideoAfter(vid)
      r == StartDetection(fresh, v, cs, anim)
  IN /\ video' = v
     /\ chains' = r[1]
     /\ animationFrameId' = r[2]
     /\ captureTimeout' = CaptureTimeoutEffect(fresh, timer)
     /\ BagCardinality(r[1]) <= MaxChains

(* ---------------------------- initialization --------------------------- *)
\* setState on an unmounted component is dropped
Set(new, old) == IF mounted THEN new ELSE old

\* errors a rejected getUserMedia (or its absence) produces
CameraErrors == {"DeviceUnavailable", "PermissionDenied", "NegotiationFailed"}

\* the catch block without its setIsLoading(false)
InitCatchKeepsLoading(kind) ==
  /\ error' = Set(kind, error)
  /\ UNCHANGED isLoading
  /\ initTimers' = initTimers \ {initTimeoutRef}
  /\ initTimeoutRef' = 0

\* catch block of initializeSystem
InitCatch(kind) ==
  /\ error' = Set(kind, error)
  /\ isLoading' = Set(FALSE, isLoading)
  /\ initTimers' = initTimers \ {initTimeoutRef}
  /\ initTimeoutRef' = 0

\* a sub-step of Promise.all rejects: the first rejection runs the catch
\* block, a later one is ignored
SubStepFails(a, field, kind) ==
  /\ attempts' = [attempts EXCEPT ![a][field] = "failed", ![a].pc = "end"]
  /\ IF attempts[a].pc = "all"
     THEN InitCatch(kind)
     ELSE UNCHANGED << error, isLoading, initTimers, initTimeoutRef >>

\* a sub-step of Promise.all resolves: when both have, setDetector(newDetector)
\* runs and the 500 ms delay starts
SubStepDone(a, field, other) ==
  LET all == attempts[a][other] = "done" /\ attempts[a].pc = "all"
  IN /\ attempts' = [attempts EXCEPT ![a][field] = "done",
                                     ![a].pc = IF all THEN "delay" ELSE @]
     /\ detector' = IF all THEN Set(a, detector) ELSE detector

\* await navigator.mediaDevices.getUserMedia(...) resolves
GetUserMediaResolve(a) ==
  /\ a \in DOMAIN attempts /\ attempts[a].cam = "gum"
  /\ streams' = [streams EXCEPT ![a] = "live"]
  /\ streamRef' = a
  /\ UNCHANGED << detector, countdown, isCapturing, capturedKeypoints, captureError,
                  detectionConfidence, isDetecting, intervals, appVars >>
  /\ IF ~video.present
     THEN /\ SubStepFails(a, "cam", "VideoUnavailable")
          /\ Commit(FALSE, video, chains, animationFrameId, captureTimeout)
     ELSE /\ attempts' = [attempts EXCEPT ![a].cam = "meta"]
          /\ UNCHANGED << error, isLoading, initTimers, initTimeoutRef >>
          /\ Commit(FALSE, [video EXCEPT !.srcObject = a, !.ready = FALSE],
                    chains, animationFrameId, captureTimeout)

\* getUserMedia is missing or rejects
GetUserMediaReject(a) ==
  /\ a \in DOMAIN attempts /\ attempts[a].cam = "gum"
  /\ \E kind \in CameraErrors : SubStepFails(a, "cam", kind)
  /\ UNCHANGED << detector, countdown, isCapturing, capturedKeypoints, captureError,
                  detectionConfidence, isDetecting, streamRef, intervals,
                  streams, appVars >>
  /\ Commit(FALSE, video, chains, animationFrameId, captureTimeout)

\* handleVideoReady: 'loadedmetadata'
VideoMetadataLoaded(a) ==
  /\ a \in DOMAIN attempts /\ attempts[a].cam = "meta"
  /\ SubStepDone(a, "cam", "tf")
  /\ UNCHANGED << countdown, isCapturing, capturedKeypoints, isLoading, error,
                  captureError, detectionConfidence, isDetecting, streamRef,
                  initTimeoutRef, intervals, initTimers, streams, appVars >>
  /\ Commit(FALSE, video, chains, animationFrameId, captureTimeout)

\* handleVideoError, or the 10 s videoTimeout
VideoLoadFails(a) ==
  /\ a \in DOMAIN attempts /\ attempts[a].cam = "meta"
  /\ \E kind \in {"VideoLoadFailed", "VideoTimeout"} : SubStepFails(a, "cam", kind)
  /\ UNCHANGED << detector, countdown, isCapturing, capturedKeypoints, captureError,
                  detectionConfidence, isDetecting, streamRef, intervals,
                  streams, appVars >>
  /\ Commit(FALSE, video, chains, animationFrameId, captureTimeout)

\* the video element of the main view has a current frame (readyState >= 2)
VideoHasData ==
  /\ video.present /\ video.srcObject # 0 /\ ~video.ready
  /\ video' = [video EXCEPT !.ready = TRUE]
  /\ UNCHANGED << compVars, animationFrameId, streamRef, initTimeoutRef,
                  asyncVars, appVars >>

\* initializeTensorFlow resolves with newDetector
TensorFlowResolve(a) ==
  /\ a \in DOMAIN attempts /\ attempts[a].tf = "pending"
  /\ SubStepDone(a, "tf", "cam")
  /\ UNCHANGED << countdown, isCapturing, capturedKeypoints, isLoading, error,
                  captureError, detectionConfidence, isDetecting, streamRef,
                  initTimeoutRef, intervals, initTimers, streams, appVars >>
  /\ Commit(FALSE, video, chains, animationFrameId, captureTimeout)

\* initializeTensorFlow throws 'AI model loading failed'
TensorFlowReject(a) ==
  /\ a \in DOMAIN attempts /\ attempts[a].tf = "pending"
  /\ SubStepFails(a, "tf", "ModelLoadFailed")
  /\ UNCHANGED << detector, countdown, isCapturing, capturedKeypoints, captureError,
                  detectionConfidence, isDetecting, streamRef, intervals,
                  streams, appVars >>
  /\ Commit(FALSE, video, chains, animationFrameId, captureTimeout)

\* the success path without its clearTimeout(initTimeoutRef.current)
InitDelayDoneKeepsTimer(a) ==
  /\ a \in DOMAIN attempts /\ attempts[a].pc = "delay"
  /\ attempts' = [attempts EXCEPT ![a].pc = "end"]
  /\ isLoading' = Set(FALSE, isLoading)
  /\ isDetecting' = Set(TRUE, isDetecting)
  /\ UNCHANGED << detector, countdown, isCapturing, capturedKeypoints, error,
                  captureError, detectionConfidence, streamRef, initTimeoutRef,
                  initTimers, intervals, streams, appVars >>
  /\ Commit(FALSE, video, chains, animationFrameId, captureTimeout)

\* initializeSystem after the 500 ms delay
InitDelayDone(a) ==
  /\ a \in DOMAIN attempts /\ attempts[a].pc = "delay"
  /\ attempts' = [attempts EXCEPT ![a].pc = "end"]
  /\ isLoading' = Set(FALSE, isLoading)
  /\ isDetecting' = Set(TRUE, isDetecting)
  /\ initTimers' = initTimers \ {initTimeoutRef}
  /\ initTimeoutRef' = 0
  /\ UNCHANGED << detector, countdown, isCapturing, capturedKeypoints, error,
                  captureError, detectionConfidence, streamRef, intervals,
                  streams, appVars >>
  /\ Commit(FALSE, video, chains, animationFrameId, captureTimeout)

\* the 30 s timer with a callback that only ends the loading state
InitTimeoutOnlyStopsLoading(a) ==
  /\ a \in initTimers
  /\ initTimers' = initTimers \ {a}
  /\ isLoading' = Set(FALSE, isLoading)
  /\ UNCHANGED << detector, countdown, isCapturing, capturedKeypoints, error,
                  captureError, detectionConfidence, isDetecting, streamRef,
                  initTimeoutRef, intervals, attempts, streams, appVars >>
  /\ Commit(FALSE, video, chains, animationFrameId, captureTimeout)

\* the 30 s timer of initializeSystem fires
InitTimeoutFires(a) ==
  /\ a \in initTimers
  /\ initTimers' = initTimers \ {a}
  /\ error' = Set("InitTimeout", error)
  /\ isLoading' = Set(FALSE, isLoading)
  /\ UNCHANGED << detector, countdown, isCapturing, capturedKeypoints,
                  captureError, detectionConfidence, isDetecting, streamRef,
                  initTimeoutRef, intervals, attempts, streams, appVars >>
  /\ Commit(FALSE, video, chains, animationFrameId, captureTimeout)

\* "Try Again" in the error view: onClick={initializeSystem}
TryAgain ==
  /\ mounted /\ error # NoError
  /\ Len(attempts) < MaxAttempts
  /\ isLoading' = TRUE
  /\ error' = NoError
  /\ initTimeoutRef' = Len(attempts) + 1
  /\ initTimers' = (initTimers \ {initTimeoutRef}) \cup {Len(attempts) + 1}
  /\ attempts' = Append(attempts, NewAttempt)
  /\ streams' = Append(streams, "none")
  /\ UNCHANGED << detector, countdown, isCapturing, capturedKeypoints,
                  captureError, detectionConfidence, isDetecting, streamRef,
                  intervals, appVars >>
  /\ Commit(FALSE, video, chains, animationFrameId, captureTimeout)

(* ---------------------------- confidence gate -------------------------- *)
\* kp.score || 0
ScoreOrZero(kp) == IF kp.score = NoScore THEN 0 ELSE kp.score

RECURSIVE SumFirst(_, _)
\* the reduce accumulator after the first n keypoints: sum + (kp.score || 0)
SumFirst(kps, n) ==
  IF n = 0 THEN 0 ELSE SumFirst(kps, n - 1) + ScoreOrZero(kps[n])

\* keypoints.reduce((sum, kp) => sum + (kp.score || 0), 0)
SumScores(kps) == SumFirst(kps, Len(kps))

\* the mean taken over the detected keypoints only
AvgConfidenceOfDetected(kps) ==
  LET detected == {j \in DOMAIN kps : ScoreOrZero(kps[j]) > 0}
  IN [num |-> SumScores(kps),
      den |-> IF detected = {} THEN 1 ELSE Cardinality(detected)]

\* ... / keypoints.length, kept as an exact fraction of hundredths
AvgConfidence(kps) == [num |-> SumScores(kps), den |-> Len(kps)]

\* avgConfidence > t, for a threshold t in hundredths
Exceeds(avg, t) == avg.num > t * avg.den

\* the gate with >= in place of >
AboveThresholdInclusive(avg) == avg.num >= CaptureThreshold * avg.den

\* avgConfidence > 0.35
AboveThreshold(avg) == Exceeds(avg, CaptureThreshold)

(* -------------------------------- renderer ----------------------------- *)
\* MoveNet keypoint connections for skeleton drawing
adjacentKeyPoints ==
  << << 0, 1 >>, << 0, 2 >>, << 1, 3 >>, << 2, 4 >>, << 5, 6 >>, << 5, 7 >>,
     << 7, 9 >>, << 6, 8 >>, << 8, 10 >>, << 5, 11 >>, << 6, 12 >>, << 11, 12 >>,
     << 11, 13 >>, << 13, 15 >>, << 12, 14 >>, << 14, 16 >> >>

\* the drawing test with >= in place of >
VisibleInclusive(kps, i) ==
  /\ i + 1 \in DOMAIN kps
  /\ kps[i + 1].score # NoScore
  /\ kps[i + 1].score >= VisibleThreshold

\* keypoint.score > 0.3 (false for a missing score); i is a 0-based index
Visible(kps, i) ==
  /\ i + 1 \in DOMAIN kps
  /\ kps[i + 1].score # NoScore
  /\ kps[i + 1].score > VisibleThreshold

\* drawKeypoints: the indices of the keypoints that get a marker
drawKeypoints(kps) == {i \in 0..(Len(kps) - 1) : Visible(kps, i)}

\* drawSkeleton: the entries of adjacentKeyPoints that get a line
drawSkeleton(kps) ==
  {n \in DOMAIN adjacentKeyPoints :
     Visible(kps, adjacentKeyPoints[n][1]) /\ Visible(kps, adjacentKeyPoints[n][2])}

\* the canvas after one detection cycle drew poses[0].keypoints (or nothing)
Drawn(kps) ==
  IF kps = NoKeypoints THEN BlankCanvas
  ELSE [markers |-> drawKeypoints(Keypoints(kps)),
        bones |-> drawSkeleton(Keypoints(kps))]

(* ---------------------------- detection loop --------------------------- *)
\* the chains after invocation c returned: it called
\* requestAnimationFrame(detectPose) (again) or ended
After(c, again) ==
  IF again THEN Requested(c.cl, chains (-) SetToBag({c}))
  ELSE chains (-) SetToBag({c})

\* the animation frame of a scheduled detectPose fires: lines 68-82
FrameFires(c) ==
  /\ BagIn(c, chains) /\ c.phase = "scheduled"
  /\ LET ph == DetectPoseEntry(c.cl, video)
     IN IF ph = "inflight"
        THEN /\ chains' = (chains (-) SetToBag({c}))
                            (+) SetToBag({Chain(c.cl, "inflight", FALSE)})
             /\ UNCHANGED animationFrameId
        ELSE /\ chains' = After(c, ph = "scheduled")
             /\ animationFrameId' = IF ph = "scheduled" THEN 1 ELSE animationFrameId
  /\ UNCHANGED << compVars, streamRef, initTimeoutRef, video, captureTimeout,
                  intervals, initTimers, attempts, streams, appVars >>

\* a catch block that only logs the error
EstimateThrowsEndsLoop(c) ==
  /\ BagIn(c, chains) /\ c.phase = "inflight"
  /\ chains' = After(c, FALSE)
  /\ UNCHANGED << compVars, animationFrameId, streamRef, initTimeoutRef, video,
                  captureTimeout, intervals, initTimers, attempts, streams, appVars >>

\* estimatePoses rejects, or the canvas ref is detached when it resolves
\* (canvasRef.current.getContext throws): the catch block, lines 127-132
EstimateThrows(c) ==
  /\ BagIn(c, chains) /\ c.phase = "inflight"
  /\ chains' = After(c, c.cl.isDetecting)
  /\ animationFrameId' = IF c.cl.isDetecting THEN 1 ELSE animationFrameId
  /\ UNCHANGED << compVars, streamRef, initTimeoutRef, video, captureTimeout,
                  intervals, initTimers, attempts, streams, appVars >>

\* getContext('2d') returns null: if (!ctx) return
ContextUnavailable(c) ==
  /\ BagIn(c, chains) /\ c.phase = "inflight"
  /\ video.present
  /\ chains' = After(c, FALSE)
  /\ UNCHANGED << compVars, animationFrameId, streamRef, initTimeoutRef, video,
                  captureTimeout, intervals, initTimers, attempts, streams, appVars >>

\* the capture condition as the invocation sees it
WantsCapture(cl) == cl.atGate /\ ~cl.captured

\* detectPose with a gate rejection that ends the loop like a capture does
EstimateReturnsStopsOnReject(c, kps) ==
  /\ BagIn(c, chains) /\ c.phase = "inflight"
  /\ video.present
  /\ LET avg == IF kps # NoKeypoints THEN AvgConfidence(Keypoints(kps))
                ELSE ZeroConfidence
         capture == kps # NoKeypoints /\ WantsCapture(c.cl) /\ AboveThreshold(avg)
         reject == kps # NoKeypoints /\ WantsCapture(c.cl) /\ ~AboveThreshold(avg)
         again == ~capture /\ ~reject /\ c.cl.isDetecting /\ ~c.cl.captured
         anim == IF again THEN 1 ELSE animationFrameId
     IN /\ detectionConfidence' =
             Set(avg, detectionConfidence)
        /\ capturedKeypoints' = IF capture THEN Set(kps, capturedKeypoints)
                                ELSE capturedKeypoints
        /\ isCapturing' = IF capture THEN Set(FALSE, isCapturing) ELSE isCapturing
        /\ countdown' = IF capture THEN Set(NullCountdown, countdown) ELSE countdown
        /\ captureError' =
             IF capture THEN Set("none", captureError)
             ELSE IF reject THEN Set("lowconf", captureError)
             ELSE IF kps = NoKeypoints /\ c.cl.atGate
                  THEN Set("nopose", captureError)
             ELSE captureError
        /\ UNCHANGED << detector, isLoading, error, isDetecting, streamRef,
                        initTimeoutRef, intervals, initTimers, attempts, streams,
                        appVars >>
        /\ Commit(capture /\ mounted, [video EXCEPT !.canvas = Drawn(kps)],
                  After(c, again), anim, captureTimeout)

\* estimatePoses resolves with keypoints kps (NoKeypoints: nobody found)
\* and the frame is drawn: lines 83-126
EstimateReturns(c, kps) ==
  /\ BagIn(c, chains) /\ c.phase = "inflight"
  /\ video.present
  /\ LET avg == IF kps # NoKeypoints THEN AvgConfidence(Keypoints(kps))
                ELSE ZeroConfidence
         capture == kps # NoKeypoints /\ WantsCapture(c.cl) /\ AboveThreshold(avg)
         again == ~capture /\ c.cl.isDetecting /\ ~c.cl.captured
         anim == IF again THEN 1 ELSE animationFrameId
     IN /\ detectionConfidence' =
             Set(avg, detectionConfidence)
        /\ capturedKeypoints' = IF capture THEN Set(kps, capturedKeypoints)
                                ELSE capturedKeypoints
        /\ isCapturing' = IF capture THEN Set(FALSE, isCapturing) ELSE isCapturing
        /\ countdown' = IF capture THEN Set(NullCountdown, countdown) ELSE countdown
        /\ captureError' =
             IF capture THEN Set("none", captureError)
             ELSE IF kps # NoKeypoints /\ WantsCapture(c.cl) THEN Set("lowconf", captureError)
             ELSE IF kps = NoKeypoints /\ c.cl.atGate
                  THEN Set("nopose", captureError)
             ELSE captureError
        /\ UNCHANGED << detector, isLoading, error, isDetecting, streamRef,
                        initTimeoutRef, intervals, initTimers, attempts, streams,
                        appVars >>
        /\ Commit(capture /\ mounted, [video EXCEPT !.canvas = Drawn(kps)],
                  After(c, again), anim, captureTimeout)

(* ------------------------------ user actions --------------------------- *)
\* the main view is rendered (not the error view)
MainView == mounted /\ error = NoError

\* the "Start Test" button is rendered and not disabled
StartEnabled ==
  /\ MainView /\ capturedKeypoints = NoKeypoints
  /\ ~(isCapturing \/ isLoading \/ detector = 0 \/ ~isDetecting)

\* startCapture behind a button that is never disabled or hidden
StartCaptureAlwaysEnabled ==
  /\ MainView
  /\ ~(detector = 0 \/ isLoading \/ ~isDetecting)
  /\ intervals < MaxIntervals
  /\ countdown' = CountdownStart
  /\ isCapturing' = TRUE
  /\ captureError' = "none"
  /\ intervals' = intervals + 1
  /\ UNCHANGED << detector, capturedKeypoints, isLoading, error,
                  detectionConfidence, isDetecting, streamRef, initTimeoutRef,
                  initTimers, attempts, streams, appVars >>
  /\ Commit(FALSE, video, chains, animationFrameId, captureTimeout)

\* startCapture
StartCapture ==
  /\ StartEnabled
  /\ ~(detector = 0 \/ isLoading \/ ~isDetecting)
  /\ intervals < MaxIntervals
  /\ countdown' = CountdownStart
  /\ isCapturing' = TRUE
  /\ captureError' = "none"
  /\ intervals' = intervals + 1
  /\ UNCHANGED << detector, capturedKeypoints, isLoading, error,
                  detectionConfidence, isDetecting, streamRef, initTimeoutRef,
                  initTimers, attempts, streams, appVars >>
  /\ Commit(FALSE, video, chains, animationFrameId, captureTimeout)

\* the updater of setCountdown inside the interval: TRUE when it clears it
TickClears(prev) == prev = NullCountdown \/ prev <= 1
TickValue(prev) == IF TickClears(prev) THEN 0 ELSE prev - 1

\* one firing of the 1 s interval of startCapture.  After unmount React
\* drops the update: the updater either is not run at all (the interval
\* stays) or is run once on the last rendered value.
CountdownTick ==
  /\ intervals > 0
  /\ IF mounted
     THEN /\ countdown' = TickValue(countdown)
          /\ intervals' = IF TickClears(countdown) THEN intervals - 1 ELSE intervals
     ELSE /\ UNCHANGED countdown
          /\ \/ UNCHANGED intervals
             \/ TickClears(countdown) /\ intervals' = intervals - 1
  /\ UNCHANGED << detector, isCapturing, capturedKeypoints, isLoading, error,
                  captureError, detectionConfidence, isDetecting, streamRef,
                  initTimeoutRef, initTimers, attempts, streams, appVars >>
  /\ Commit(FALSE, video, chains, animationFrameId, captureTimeout)

\* the timeout callback without its setCountdown(null)
CaptureTimeoutKeepsCountdown ==
  /\ captureTimeout # 0
  /\ IF captureTimeout = 1
     THEN /\ captureError' = Set("timeout", captureError)
          /\ isCapturing' = Set(FALSE, isCapturing)
          /\ UNCHANGED countdown
     ELSE UNCHANGED << captureError, isCapturing, countdown >>
  /\ UNCHANGED << detector, capturedKeypoints, isLoading, error,
                  detectionConfidence, isDetecting, streamRef, initTimeoutRef,
                  intervals, initTimers, attempts, streams, appVars >>
  /\ Commit(FALSE, video, chains, animationFrameId, 0)

\* the 10 s timer of the capture timeout effect fires
CaptureTimeoutFires ==
  /\ captureTimeout # 0
  /\ IF captureTimeout = 1
     THEN /\ captureError' = Set("timeout", captureError)
          /\ isCapturing' = Set(FALSE, isCapturing)
          /\ countdown' = Set(NullCountdown, countdown)
     ELSE UNCHANGED << captureError, isCapturing, countdown >>
  /\ UNCHANGED << detector, capturedKeypoints, isLoading, error,
                  detectionConfidence, isDetecting, streamRef, initTimeoutRef,
                  intervals, initTimers, attempts, streams, appVars >>
  /\ Commit(FALSE, video, chains, animationFrameId, 0)

\* retry
Retry ==
  /\ MainView /\ capturedKeypoints # NoKeypoints
  /\ capturedKeypoints' = NoKeypoints
  /\ countdown' = NullCountdown
  /\ captureError' = "none"
  /\ detectionConfidence' = ZeroConfidence
  /\ isDetecting' = TRUE
  /\ UNCHANGED << detector, isCapturing, isLoading, error, streamRef,
                  initTimeoutRef, intervals, initTimers, attempts, streams,
                  appVars >>
  /\ LET r == IF animationFrameId = 0 /\ detector # 0
              THEN CallDetectPose(CurClosure, video, chains, animationFrameId)
              ELSE << chains, animationFrameId >>
     IN Commit(FALSE, video, r[1], r[2], captureTimeout)

(* ------------------------------- hand-off ------------------------------ *)
\* a normalization that divides both coordinates by the frame width
NormalizeByWidth(kps) ==
  [i \in DOMAIN kps |->
     [x |-> (kps[i].x * NormScale) \div FrameWidth,
      y |-> (kps[i].y * NormScale) \div FrameWidth,
      score |-> ScoreOrZero(kps[i]),
      name |-> kps[i].name]]

\* capturedKeypoints.map(kp => ({x: kp.x / 640, y: kp.y / 480, ...}))
Normalize(kps) ==
  [i \in DOMAIN kps |->
     [x |-> (kps[i].x * NormScale) \div FrameWidth,
      y |-> (kps[i].y * NormScale) \div FrameHeight,
      score |-> ScoreOrZero(kps[i]),
      name |-> kps[i].name]]

\* the argument of the i-th onComplete call
\* what handleTestComplete reads after its await comes from the render
\* that created it: currentTest, completedTests.length and the tests of
\* messages[messages.length - 1]
TestClosure ==
  [test |-> currentTest, done |-> Len(completedTests),
   offered |-> Cardinality(messages[Len(messages)])]

\* App.handleTestComplete up to its await of analyzeMovement, called by
\* CameraTest as onComplete with the array kps
HandleTestComplete(kps) ==
  /\ currentTest # 0
  /\ Len(completions) < MaxCompletes
  /\ completions' = Append(completions, kps)
  /\ analyzing' = analyzing + 1
  /\ appIsLoading' = TRUE
  /\ pending' = pending (+) SetToBag({TestClosure})
  /\ UNCHANGED << messages, completedTests, currentTest, assessmentState,
                  routineTimers, routineCalls, routineRequests >>

OnCompleteArg(i) == Normalize(Keypoints(completions[i]))

\* handleComplete ("Analyze Movement"), then App.handleTestComplete up to
\* its await of analyzeMovement
HandleComplete ==
  /\ MainView /\ capturedKeypoints # NoKeypoints
  /\ HandleTestComplete(capturedKeypoints)
  /\ UNCHANGED << compVars, refVars, asyncVars, mounted, closeCalls >>

\* cleanup of the mount effect, and of the capture timeout effect, when
\* App stops rendering CameraTest
Unmount ==
  /\ mounted' = FALSE
  /\ chains' = IF mounted
               THEN [c \in {d \in BagToSet(chains) : ~d.latest} |-> chains[c]]
               ELSE chains
  /\ streams' = IF mounted /\ streamRef # 0
                THEN [streams EXCEPT ![streamRef] = "stopped"]
                ELSE streams
  /\ initTimers' = IF mounted THEN initTimers \ {initTimeoutRef} ELSE initTimers
  /\ captureTimeout' = 0
  /\ video' = NoVideo
  /\ UNCHANGED << compVars, animationFrameId, streamRef, initTimeoutRef,
                  intervals, attempts >>

\* analyzeMovement resolves: setCompletedTests, setCurrentTest(null)
AnalyzeResolves ==
  /\ analyzing > 0
  /\ analyzing' = analyzing - 1
  /\ \E p \in BagToSet(pending) :
       /\ pending' = pending (-) SetToBag({p})
       /\ completedTests' = Append(completedTests, p.test)
       /\ routineTimers' = IF p.done + 1 >= p.offered THEN routineTimers + 1
                           ELSE routineTimers
  /\ messages' = Append(messages, NoTests)
  /\ currentTest' = 0
  /\ appIsLoading' = FALSE
  /\ Unmount
  /\ UNCHANGED << completions, closeCalls, assessmentState, routineCalls,
                  routineRequests >>

\* analyzeMovement rejects: the catch block only adds a chat message
AnalyzeRejects ==
  /\ analyzing > 0
  /\ analyzing' = analyzing - 1
  /\ \E p \in BagToSet(pending) : pending' = pending (-) SetToBag({p})
  /\ messages' = Append(messages, NoTests)
  /\ appIsLoading' = FALSE
  /\ UNCHANGED << compVars, refVars, asyncVars, mounted, completions, closeCalls,
                  completedTests, currentTest, assessmentState, routineTimers,
                  routineCalls, routineRequests >>

\* the close button with a cleanup that leaves the stream's tracks running
CloseKeepsStream ==
  /\ mounted
  /\ closeCalls' = closeCalls + 1
  /\ mounted' = FALSE
  /\ chains' = [c \in {d \in BagToSet(chains) : ~d.latest} |-> chains[c]]
  /\ initTimers' = initTimers \ {initTimeoutRef}
  /\ captureTimeout' = 0
  /\ video' = NoVideo
  /\ currentTest' = 0
  /\ UNCHANGED << compVars, animationFrameId, streamRef, initTimeoutRef,
                  intervals, attempts, streams, analyzing, completions,
                  messages, completedTests, assessmentState, appIsLoading,
                  pending, routineTimers, routineCalls, routineRequests >>

\* the close button: onClose = () => setCurrentTest(null)
Close ==
  /\ mounted
  /\ closeCalls' = closeCalls + 1
  /\ currentTest' = 0
  /\ Unmount
  /\ UNCHANGED << analyzing, completions, messages, completedTests,
                  assessmentState, appIsLoading, pending, routineTimers,
                  routineCalls, routineRequests >>

(* --------------------------- the specifications ------------------------ *)
\* steps of an initialization attempt that succeed
InitSucceeds(a) ==
  \/ GetUserMediaResolve(a)
  \/ VideoMetadataLoaded(a)
  \/ TensorFlowResolve(a)
  \/ InitDelayDone(a)

\* steps of an initialization attempt that fail
InitFails(a) ==
  \/ GetUserMediaReject(a)
  \/ VideoLoadFails(a)
  \/ TensorFlowReject(a)
  \/ InitTimeoutFires(a)

\* steps of the detection loop
Detection ==
  \E c \in BagToSet(chains) :
    \/ FrameFires(c)
    \/ EstimateThrows(c)
    \/ ContextUnavailable(c)
    \/ \E kps \in EstimateOutcomes : EstimateReturns(c, kps)

\* countdown, capture, retry and hand-off
Capture ==
  \/ StartCapture
  \/ CountdownTick
  \/ CaptureTimeoutFires
  \/ Retry
  \/ HandleComplete
  \/ AnalyzeResolves
  \/ AnalyzeRejects

\* the whole program
NextAll ==
  \/ \E a \in 1..MaxAttempts : InitSucceeds(a) \/ InitFails(a)
  \/ VideoHasData
  \/ TryAgain
  \/ Detection
  \/ Capture
  \/ Close

SpecAll == Init /\ [][NextAll]_vars

\* sessions whose first initialization attempt succeeds in time
NextCapture ==
  \/ \E a \in 1..MaxAttempts : InitSucceeds(a)
  \/ VideoHasData
  \/ Detection
  \/ Capture
  \/ Close

SpecCapture == Init /\ [][NextCapture]_vars

\* sessions in which the countdown is never started
NextInit ==
  \/ \E a \in 1..MaxAttempts : InitSucceeds(a) \/ InitFails(a)
  \/ VideoHasData
  \/ TryAgain
  \/ Detection
  \/ Close

SpecInit == Init /\ [][NextInit]_vars

\* sessions without "Try Again": the one initialization attempt may fail
NextSession ==
  \/ \E a \in 1..MaxAttempts : InitSucceeds(a) \/ InitFails(a)
  \/ VideoHasData
  \/ Detection
  \/ Capture
  \/ Close

SpecSession == Init /\ [][NextSession]_vars

\* detection cycles over every pose array of the table
DetectionOfAllPoses ==
  \E c \in BagToSet(chains) :
    \/ FrameFires(c)
    \/ EstimateThrows(c)
    \/ ContextUnavailable(c)
    \/ \E kps \in AllPoses \cup {NoKeypoints} : EstimateReturns(c, kps)

\* sessions that initialize, detect, capture and hand off, over every
\* pose array of the table
NextPose ==
  \/ \E a \in 1..MaxAttempts : InitSucceeds(a)
  \/ VideoHasData
  \/ DetectionOfAllPoses
  \/ StartCapture
  \/ CountdownTick
  \/ CaptureTimeoutFires
  \/ HandleComplete

SpecPose == Init /\ [][NextPose]_vars

(* ------------------------------ the App flow --------------------------- *)
\* the App after startAssessment has put the greeting in the chat: no test
\* is open and no CameraTest has been mounted yet
InitApp ==
  /\ mounted = FALSE
  /\ detector = 0
  /\ countdown = NullCountdown
  /\ isCapturing = FALSE
  /\ capturedKeypoints = NoKeypoints
  /\ isLoading = TRUE
  /\ error = NoError
  /\ captureError = "none"
  /\ detectionConfidence = ZeroConfidence
  /\ isDetecting = FALSE
  /\ animationFrameId = 0
  /\ streamRef = 0
  /\ initTimeoutRef = 0
  /\ video = NoVideo
  /\ chains = EmptyBag
  /\ captureTimeout = 0
  /\ intervals = 0
  /\ initTimers = {}
  /\ attempts = << >>
  /\ streams = << >>
  /\ analyzing = 0
  /\ completions = << >>
  /\ closeCalls = 0
  /\ messages = << NoTests >>
  /\ completedTests = << >>
  /\ currentTest = 0
  /\ assessmentState = "chat"
  /\ appIsLoading = FALSE
  /\ pending = EmptyBag
  /\ routineTimers = 0
  /\ routineCalls = 0
  /\ routineRequests = 0

\* the CameraTest callbacks and variables an App handler does not touch
SessionUnchanged ==
  UNCHANGED << compVars, refVars, asyncVars, mounted, analyzing, completions,
               closeCalls >>

\* handleSendMessage up to its await: the user's message joins the chat.
\* The input is enabled only in the chat state while nothing is loading
SendMessage ==
  /\ assessmentState = "chat" /\ ~appIsLoading
  /\ Len(messages) < 2 * MaxSends
  /\ messages' = Append(messages, NoTests)
  /\ appIsLoading' = TRUE
  /\ SessionUnchanged
  /\ UNCHANGED << completedTests, currentTest, assessmentState, pending,
                  routineTimers, routineCalls, routineRequests >>

\* submitProblemAreas resolves with n recommended tests; in the chat
\* state only handleSendMessage sets isLoading
SubmitResolves(n) ==
  /\ assessmentState = "chat" /\ appIsLoading
  /\ messages' = Append(messages, 1..n)
  /\ assessmentState' = IF n > 0 THEN "testing" ELSE assessmentState
  /\ appIsLoading' = FALSE
  /\ SessionUnchanged
  /\ UNCHANGED << completedTests, currentTest, pending, routineTimers,
                  routineCalls, routineRequests >>

\* submitProblemAreas rejects: the catch block adds an apology
SubmitRejects ==
  /\ assessmentState = "chat" /\ appIsLoading
  /\ messages' = Append(messages, NoTests)
  /\ appIsLoading' = FALSE
  /\ SessionUnchanged
  /\ UNCHANGED << completedTests, currentTest, assessmentState, pending,
                  routineTimers, routineCalls, routineRequests >>

\* the tests that have a card in the chat
OfferedTests == UNION {messages[i] : i \in DOMAIN messages}

\* the ids in completedTests
CompletedSet == {completedTests[i] : i \in DOMAIN completedTests}

\* handleStartTest(test): the card's button is disabled once the test is
\* in completedTests and is covered by the modal while a test is open;
\* a new CameraTest mounts and its mount effect calls initializeSystem
StartTest(t) ==
  /\ currentTest = 0
  /\ closeCalls < MaxCloses
  /\ t \in OfferedTests \ CompletedSet
  /\ currentTest' = t
  /\ mounted' = TRUE
  /\ detector' = 0
  /\ countdown' = NullCountdown
  /\ isCapturing' = FALSE
  /\ capturedKeypoints' = NoKeypoints
  /\ isLoading' = TRUE
  /\ error' = NoError
  /\ captureError' = "none"
  /\ detectionConfidence' = ZeroConfidence
  /\ isDetecting' = FALSE
  /\ animationFrameId' = 0
  /\ streamRef' = 0
  /\ initTimeoutRef' = 1
  /\ video' = FreshVideo
  /\ chains' = EmptyBag
  /\ captureTimeout' = 0
  /\ intervals' = 0
  /\ initTimers' = {1}
  /\ attempts' = << NewAttempt >>
  /\ streams' = << "none" >>
  /\ UNCHANGED << analyzing, completions, closeCalls, messages, completedTests,
                  assessmentState, appIsLoading, pending, routineTimers,
                  routineCalls, routineRequests >>

\* the open CameraTest calls onComplete with a captured array
OnComplete ==
  /\ mounted
  /\ \E kps \in Poses : HandleTestComplete(kps)
  /\ UNCHANGED << compVars, refVars, asyncVars, mounted, closeCalls >>

\* the 2 s timer set by handleTestComplete fires: generateRoutine up to
\* its await
GenerateRoutine ==
  /\ routineTimers > 0
  /\ routineTimers' = routineTimers - 1
  /\ routineCalls' = routineCalls + 1
  /\ routineRequests' = routineRequests + 1
  /\ appIsLoading' = TRUE
  /\ messages' = Append(messages, NoTests)
  /\ SessionUnchanged
  /\ UNCHANGED << completedTests, currentTest, assessmentState, pending >>

\* the routine request resolves: setRoutine, setAssessmentState('complete')
GenerateRoutineResolves ==
  /\ routineRequests > 0
  /\ routineRequests' = routineRequests - 1
  /\ assessmentState' = "complete"
  /\ messages' = Append(messages, NoTests)
  /\ appIsLoading' = FALSE
  /\ SessionUnchanged
  /\ UNCHANGED << completedTests, currentTest, pending, routineTimers,
                  routineCalls >>

\* the routine request rejects: the catch block adds an apology
GenerateRoutineRejects ==
  /\ routineRequests > 0
  /\ routineRequests' = routineRequests - 1
  /\ messages' = Append(messages, NoTests)
  /\ appIsLoading' = FALSE
  /\ SessionUnchanged
  /\ UNCHANGED << completedTests, currentTest, assessmentState, pending,
                  routineTimers, routineCalls >>

\* the App from the greeting on, with CameraTest seen through its two
\* callbacks onComplete and onClose
NextApp ==
  \/ SendMessage
  \/ \E n \in 0..MaxTests : SubmitResolves(n)
  \/ SubmitRejects
  \/ \E t \in 1..MaxTests : StartTest(t)
  \/ OnComplete
  \/ AnalyzeResolves
  \/ AnalyzeRejects
  \/ Close
  \/ GenerateRoutine
  \/ GenerateRoutineResolves
  \/ GenerateRoutineRejects

SpecApp == InitApp /\ [][NextApp]_vars

TypeOK ==
  /\ mounted \in BOOLEAN
  /\ detector \in 0..MaxAttempts
  /\ countdown \in {NullCountdown} \cup 0..CountdownStart
  /\ isCapturing \in BOOLEAN /\ isLoading \in BOOLEAN /\ isDetecting \in BOOLEAN
  /\ capturedKeypoints \in AllPoses \cup {NoKeypoints}
  /\ captureError \in {"none", "timeout", "lowconf", "nopose"}
  /\ IsABag(chains) /\ BagCardinality(chains) <= MaxChains
  /\ captureTimeout \in 0..2
  /\ intervals \in 0..MaxIntervals
  /\ initTimers \subseteq {initTimeoutRef}
  /\ analyzing \in 0..MaxCompletes
  /\ Len(completions) <= MaxCompletes
  /\ analyzing = BagCardinality(pending)
  /\ mounted <=> currentTest # 0
  /\ Len(completedTests) <= Len(completions)
  /\ assessmentState \in {"chat", "testing", "complete"}
  /\ appIsLoading \in BOOLEAN

(* --------------------------- the session state ------------------------- *)
\* the state of the capture state machine, as the component renders it:
\* the error view, the loading overlay, the captured banner with
\* Retry / Analyze Movement, the "Get Ready..." button, the Start button
SessionState ==
  IF ~mounted THEN "Closed"
  ELSE IF error # NoError THEN "Error"
  ELSE IF isLoading \/ detector = 0 \/ ~isDetecting THEN "Initializing"
  ELSE IF capturedKeypoints # NoKeypoints THEN "Captured"
  ELSE IF isCapturing /\ countdown = 0 THEN "AwaitingGatedCapture"
  ELSE IF isCapturing THEN "CountdownRunning"
  ELSE "Detecting"

\* a detection cycle is scheduled or in flight
LoopRunning == chains # EmptyBag

(* -------------------------------- claims ------------------------------- *)
\* C1: in AwaitingGatedCapture, a detection cycle whose pose the gate
\* accepts (mean confidence > 0.35) moves the session to Captured with
\* capturedKeypoints equal to that cycle's keypoints.
C1_AcceptedPoseIsCaptured ==
  [][\A c \in BagToSet(chains), kps \in Poses :
       (/\ SessionState = "AwaitingGatedCapture"
        /\ AboveThreshold(AvgConfidence(Keypoints(kps)))
        /\ EstimateReturns(c, kps))
       => (capturedKeypoints' = kps /\ SessionState' = "Captured")]_vars

\* C2: capturedKeypoints becomes non-null only by a step taken in
\* AwaitingGatedCapture (isCapturing, countdown 0), from no other state.
C2_CapturedOnlyFromGate ==
  [][(capturedKeypoints = NoKeypoints /\ capturedKeypoints' # NoKeypoints)
       => SessionState = "AwaitingGatedCapture"]_vars

\* C3: while the session awaits the gated capture the 10 s timeout is
\* armed, and when it fires it reports CaptureTimeout and returns the
\* session to Detecting (isCapturing false, countdown null) with the
\* camera stream and the detector unchanged and still held, so that the
\* countdown can be started again.
C3_TimeoutReturnsToDetecting ==
  /\ [](SessionState = "AwaitingGatedCapture" => captureTimeout = 1)
  /\ [][(SessionState = "AwaitingGatedCapture" /\ CaptureTimeoutFires)
          => /\ captureError' = "timeout"
             /\ SessionState' = "Detecting"
             /\ ~isCapturing' /\ countdown' = NullCountdown
             /\ capturedKeypoints' = NoKeypoints
             /\ detector' = detector /\ detector' # 0
             /\ streamRef' = streamRef /\ streams' = streams
             /\ streamRef' # 0 /\ streams'[streamRef'] = "live"
             /\ StartEnabled']_vars

\* C3 witness: the timeout has fired and the session is back in Detecting
\* with its stream live
C3_Witness ==
  /\ captureError = "timeout" /\ SessionState = "Detecting"
  /\ streamRef # 0 /\ streams[streamRef] = "live"

\* C4: CaptureTimeout and a capture exclude each other for one countdown
\* attempt: while the timeout report stands (no new countdown started) no
\* step captures, and a step that leaves the session captured never
\* reports the timeout.
C4_TimeoutExcludesCapture ==
  [][/\ (captureError = "timeout" /\ capturedKeypoints = NoKeypoints)
          => capturedKeypoints' = NoKeypoints
     /\ capturedKeypoints' # NoKeypoints => captureError' # "timeout"]_vars

\* C5: while the session is Captured no detection cycle is scheduled or
\* in flight.
C5_CapturedHaltsLoop ==
  (mounted /\ capturedKeypoints # NoKeypoints) => ~LoopRunning

\* C6: retry resumes the detection loop: right after retry a detection
\* cycle is scheduled or in flight.
C6_RetryResumesLoop ==
  [][Retry => LoopRunning']_vars

\* C7: after close no callback of the session changes session state, and
\* none requests a further animation frame or leaves more timers behind.
C7_ClosedSessionIsQuiet ==
  [][~mounted =>
       /\ compVars' = compVars
       /\ intervals' <= intervals
       /\ \A d \in BagToSet(chains') :
            d.phase = "scheduled" => CopiesIn(d, chains') <= CopiesIn(d, chains)]_vars

\* C8: when getUserMedia resolves after close, the new stream is stopped
\* and nothing of the session (stream ref, video source, state) is set.
C8_LateStreamIsReleased ==
  [][\A a \in DOMAIN attempts :
       (~mounted /\ GetUserMediaResolve(a))
       => /\ streams'[a] = "stopped"
          /\ streamRef' = streamRef
          /\ video' = video
          /\ compVars' = compVars]_vars

\* C9: onComplete is invoked at most once for the session.
C9_OnCompleteAtMostOnce == Len(completions) <= 1

\* C10: once a hand-off has been made and the caller has finished
\* processing it, the session is closed.
C10_HandOffCloses ==
  (completions # << >> /\ analyzing = 0) => ~mounted

\* C11: the session can be closed from every state of an open session,
\* and closing fires onClose once, leaves the session Closed and stops the
\* tracks of the stream the session holds (none when no stream was ever
\* acquired, as after a PermissionDenied error).
C11_CloseFromAnywhere ==
  /\ [](mounted => ENABLED Close)
  /\ [][Close =>
          /\ closeCalls' = closeCalls + 1
          /\ SessionState' = "Closed"
          /\ streamRef' = streamRef
          /\ streamRef # 0 => streams'[streamRef] = "stopped"]_vars

\* C11 witness: closed after a PermissionDenied error, no stream acquired
C11_Witness ==
  /\ ~mounted /\ closeCalls = 1
  /\ error = "PermissionDenied" /\ streamRef = 0

\* C12: startCapture sets the countdown to 3, and every tick of the 1 s
\* interval that fires in an open session finds a countdown above 0 and
\* decrements it by one: the countdown goes 3, 2, 1, 0, never below 0, and
\* no tick fires once 0 has been reached.
C12_CountdownThreeTicks ==
  /\ [][StartCapture => countdown' = CountdownStart]_vars
  /\ [][(mounted /\ CountdownTick) =>
          /\ countdown > 0
          /\ countdown' = countdown - 1]_vars
  /\ [](mounted /\ countdown = 0 => intervals = 0)

\* C13: detection runs during the countdown: in CountdownRunning a
\* detection cycle is scheduled or in flight, so that cycles run between
\* the start action and the countdown reaching 0.
C13_DetectionRunsDuringCountdown ==
  SessionState = "CountdownRunning" => LoopRunning

\* the failures of the camera sub-step and of the model sub-step
CameraFailures == CameraErrors \cup {"VideoUnavailable", "VideoLoadFailed", "VideoTimeout"}
ModelFailures == {"ModelLoadFailed"}

\* C14: when a sub-step of a running initialization attempt fails in an
\* open session, the session is in Error carrying that failure and is no
\* longer loading; and only an attempt whose two sub-steps both succeeded
\* ever sets isDetecting.
C14_InitFailureIsError ==
  /\ [][\A a \in DOMAIN attempts :
          (mounted /\ attempts[a].pc = "all" /\ attempts'[a].pc = "end") =>
            /\ SessionState' = "Error"
            /\ ~isLoading'
            /\ attempts'[a].tf # attempts[a].tf => error' \in ModelFailures
            /\ attempts'[a].cam # attempts[a].cam => error' \in CameraFailures]_vars
  /\ [][\A a \in DOMAIN attempts :
          InitDelayDone(a) =>
            /\ attempts[a].tf = "done"
            /\ attempts[a].cam = "done"]_vars

\* C14 witness: the model load failed while the camera grant was still
\* pending, and the session shows that error
C14_Witness ==
  /\ mounted /\ error = "ModelLoadFailed" /\ ~isLoading /\ ~isDetecting
  /\ attempts[1].tf = "failed" /\ attempts[1].cam = "gum"

\* C15: while an open session is loading without an error, the 30 s timer
\* of the latest initializeSystem call is pending, and when it fires the
\* session is in Error with the timeout message and no longer loading,
\* whatever the sub-steps are waiting for.
C15_InitTimeoutIsError ==
  /\ []((mounted /\ isLoading /\ error = NoError) =>
          (initTimeoutRef # 0 /\ initTimeoutRef \in initTimers))
  /\ [][\A a \in initTimers :
          (mounted /\ InitTimeoutFires(a)) =>
            /\ error' = "InitTimeout"
            /\ ~isLoading'
            /\ SessionState' = "Error"]_vars

\* C15 witness: the timer fired while the video element had not become
\* ready (model loaded, stream granted)
C15_Witness ==
  /\ mounted /\ error = "InitTimeout" /\ ~isLoading
  /\ attempts[1] = [tf |-> "done", cam |-> "meta", pc |-> "all"]

\* C16: while the session is in Error no detection cycle is scheduled or
\* in flight and no countdown is running, and the session leaves Error
\* only by "Try Again" or by closing.
C16_ErrorIsFatal ==
  /\ [](SessionState = "Error" => (~LoopRunning /\ ~isCapturing /\ ~isDetecting))
  /\ [][(SessionState = "Error" /\ SessionState' # "Error") => (TryAgain \/ Close)]_vars

\* the session has finished initializing: Detecting or a later state
Initialized ==
  SessionState \in {"Detecting", "CountdownRunning", "AwaitingGatedCapture", "Captured"}

\* C17: the success path of initializeSystem leaves no init timer pending,
\* and in a session that has finished initializing no init timer is
\* pending, so none fires and puts it into Error; this includes a success
\* of an earlier attempt while a later attempt is still pending.
C17_InitTimeoutCancelled ==
  /\ [][\A a \in DOMAIN attempts :
          (mounted /\ InitDelayDone(a)) => initTimers' = {}]_vars
  /\ [](Initialized => initTimers = {})
  /\ [][\A a \in initTimers :
          InitTimeoutFires(a) => ~Initialized]_vars

\* C17 witness: after "Try Again" the earlier attempt completed and the
\* session is Detecting while the later attempt is still pending
C17_Witness ==
  /\ SessionState = "Detecting" /\ initTimers = {}
  /\ Len(attempts) = 2 /\ attempts[1].pc = "end" /\ attempts[2].pc = "all"

\* C18: a failed estimatePoses call in an open session changes no state
\* of the session, enters no Error, and the invocation re-schedules
\* itself: the loop goes on with the same number of chains.
C18_EstimateFailureRecovered ==
  [][\A c \in BagToSet(chains) :
       (mounted /\ EstimateThrows(c)) =>
         /\ compVars' = compVars
         /\ SessionState' = SessionState
         /\ BagIn(Chain(c.cl, "scheduled", TRUE), chains')
         /\ animationFrameId' = 1
         /\ BagCardinality(chains') = BagCardinality(chains)]_vars

\* C18 witness: an invocation that could only have been re-scheduled by
\* its catch block (with capturedKeypoints set in its closure it never
\* re-schedules itself after a successful estimate) in an open session
C18_Witness ==
  /\ MainView /\ SessionState = "Detecting"
  /\ \E d \in BagToSet(chains) :
       d.cl.captured /\ d.phase = "scheduled" /\ d.latest

\* C19: a detection cycle that finds nobody, in Detecting,
\* CountdownRunning or AwaitingGatedCapture, sets the confidence to 0,
\* leaves the session state and the fatal error as they were, captures
\* nothing, and re-schedules itself.
C19_NoPoseIsNotAnError ==
  [][\A c \in BagToSet(chains) :
       (/\ SessionState \in {"Detecting", "CountdownRunning", "AwaitingGatedCapture"}
        /\ EstimateReturns(c, NoKeypoints)) =>
         /\ detectionConfidence' = ZeroConfidence
         /\ SessionState' = SessionState
         /\ error' = error
         /\ capturedKeypoints' = NoKeypoints
         /\ BagIn(Chain(c.cl, "scheduled", TRUE), chains')]_vars

\* C20: a detection cycle whose canvas gives no 2D context does not end
\* the loop: the invocation re-schedules itself.
C20_RendererFailureKeepsLoop ==
  [][\A c \in BagToSet(chains) :
       (mounted /\ ContextUnavailable(c)) =>
         /\ BagIn(Chain(c.cl, "scheduled", TRUE), chains')
         /\ LoopRunning']_vars

C22_HandOffIsNormalized ==
  /\ [](\A i \in DOMAIN completions :
          LET kps == Keypoints(completions[i])
              out == OnCompleteArg(i)
          IN /\ DOMAIN out = DOMAIN kps
             /\ \A j \in DOMAIN kps :
                  /\ out[j].x * FrameWidth = kps[j].x * NormScale
                  /\ out[j].y * FrameHeight = kps[j].y * NormScale
                  /\ out[j].score = (IF kps[j].score = NoScore THEN 0 ELSE kps[j].score)
                  /\ out[j].name = kps[j].name
             /\ kps = PoseScenario =>
                  out[1] = [x |-> 500, y |-> 500, score |-> 80, name |-> "nose"])
  /\ [][HandleComplete =>
          /\ capturedKeypoints' = capturedKeypoints
          /\ completions'[Len(completions')] = capturedKeypoints]_vars

\* C22 witness: the pose with keypoints at (320, 240), confidence 0.8, has
\* been captured and handed off
C22_Witness ==
  /\ completions # << >>
  /\ Keypoints(completions[1]) = PoseScenario

\* C23: the start action can be taken only in Detecting, and every step
\* that starts a countdown interval, sets isCapturing or sets the
\* countdown to 3 is the start action taken in Detecting.
C23_StartOnlyInDetecting ==
  /\ []((ENABLED StartCapture) => SessionState = "Detecting")
  /\ [][(\/ intervals' > intervals
          \/ (isCapturing' /\ ~isCapturing)
          \/ (countdown' = CountdownStart /\ countdown # CountdownStart)) =>
          (SessionState = "Detecting" /\ StartCapture)]_vars

\* C23 witness: the countdown has just been started
C23_Witness ==
  /\ SessionState = "CountdownRunning"
  /\ countdown = CountdownStart /\ intervals = 1

\* the detectors the session created and has not disposed of: every
\* resolved createDetector call, as no code path calls dispose()
DetectorsHeld == {a \in DOMAIN attempts : attempts[a].tf = "done"}

\* C24: after close no detector created by the session is still held:
\* none is left undisposed and no pending detectPose invocation still
\* refers to one.
C24_ClosedHoldsNoDetector ==
  ~mounted =>
    /\ DetectorsHeld = {}
    /\ \A c \in BagToSet(chains) : ~c.cl.detector

\* the thresholds acceptance is compared at: 0, 0.05, ..., 1
Thresholds == {5 * k : k \in 0..20}

\* C25: a cycle that puts a pose to the gate accepts it exactly when its
\* score is greater than 0.35, so a pose scoring exactly 0.35 is rejected,
\* and a score that exceeds a threshold exceeds every lower threshold.
C25_AcceptIsStrictAndMonotonic ==
  /\ [][\A c \in BagToSet(chains), kps \in AllPoses :
         (mounted /\ WantsCapture(c.cl) /\ EstimateReturns(c, kps)) =>
           LET score == AvgConfidence(Keypoints(kps))
           IN /\ score.num > CaptureThreshold * score.den =>
                   capturedKeypoints' = kps /\ captureError' = "none"
              /\ score.num <= CaptureThreshold * score.den =>
                   /\ capturedKeypoints' = capturedKeypoints
                   /\ captureError' = "lowconf"
              /\ score.num = CaptureThreshold * score.den =>
                   capturedKeypoints' = capturedKeypoints]_vars
  /\ [](\A t1, t2 \in Thresholds :
          (t2 < t1 /\ Exceeds(detectionConfidence, t1)) =>
            Exceeds(detectionConfidence, t2))

\* C25 witness: a pose scoring exactly 0.35 was put to the gate and rejected
C25_Witness ==
  /\ detectionConfidence = AvgConfidence(PoseEdge)
  /\ detectionConfidence.num = CaptureThreshold * detectionConfidence.den
  /\ captureError = "lowconf" /\ capturedKeypoints = NoKeypoints

\* the values one keypoint's confidence is lowered to: missing, 0, 0.3
LoweredScores == {NoScore, 0, VisibleThreshold}

\* C26: the confidence a detection cycle computes for a pose is the mean of
\* its 17 keypoint confidences, a missing or zero confidence counting as 0:
\* it is at least any t that all 17 reach, 0 when all are 0, and not raised
\* by lowering one keypoint's confidence.
C26_ScoreIsMeanOfAll ==
  [][\A c \in BagToSet(chains), kps \in AllPoses :
       (mounted /\ EstimateReturns(c, kps)) =>
         LET pose == Keypoints(kps)
             conf(j) == IF pose[j].score = NoScore THEN 0 ELSE pose[j].score
             score == detectionConfidence'
         IN /\ score.den = NumKeypoints
            /\ \A t \in Thresholds :
                 (\A j \in DOMAIN pose : conf(j) >= t) => score.num >= t * score.den
            /\ (\A j \in DOMAIN pose : conf(j) = 0) => score.num = 0
            /\ pose = PosePartial => score.num = 9 * 90
            /\ pose = PoseMixed => score.num = 14 * 90 + 31 + VisibleThreshold
            /\ \A j \in DOMAIN pose, s \in LoweredScores :
                 (IF s = NoScore THEN 0 ELSE s) <= conf(j) =>
                   LET lower == AvgConfidence(WithScore(pose, j, s))
                   IN lower.num * score.den <= score.num * lower.den]_vars

\* C26 witness: a cycle scored a pose with undetected keypoints
C26_Witness ==
  /\ detectionConfidence.den = NumKeypoints
  /\ detectionConfidence.num = 9 * 90
  /\ video.canvas = Drawn(3)

\* C27: a detection cycle leaves on the canvas a marker for exactly the
\* keypoints with confidence above 0.3 and a line for exactly the entries
\* of the 16-pair adjacency table whose two ends are both above 0.3, so
\* every line joins two markers and a keypoint at exactly 0.3 is not drawn.
C27_RenderDrawsVisibleOnly ==
  [][\A c \in BagToSet(chains), kps \in AllPoses :
       (mounted /\ EstimateReturns(c, kps)) =>
         LET pose == Keypoints(kps)
             canvas == video'.canvas
             above(i) == pose[i + 1].score > VisibleThreshold
         IN /\ canvas.markers = {i \in 0..(NumKeypoints - 1) : above(i)}
            /\ Len(adjacentKeyPoints) = 16
            /\ canvas.bones =
                 {n \in 1..16 : above(adjacentKeyPoints[n][1])
                                 /\ above(adjacentKeyPoints[n][2])}
            /\ \A n \in canvas.bones :
                 /\ adjacentKeyPoints[n][1] \in canvas.markers
                 /\ adjacentKeyPoints[n][2] \in canvas.markers
            /\ \A i \in 0..(NumKeypoints - 1) :
                 pose[i + 1].score = VisibleThreshold => i \notin canvas.markers
            /\ pose = PoseFaint => canvas = BlankCanvas
            /\ pose = PoseMixed =>
                 /\ canvas.markers = {0} \cup 3..16
                 /\ canvas.bones = 5..16]_vars

\* C27 witness: a pose with a keypoint at exactly 0.3 and one without a
\* score was drawn: the nose got a marker and no line
C27_Witness ==
  /\ video.canvas.markers = {0} \cup 3..16
  /\ video.canvas.bones = 5..16

\* C28: a detection cycle that decides capture, feedback and rescheduling
\* does so from the values of isDetecting, isCapturing, countdown and
\* capturedKeypoints that are current when it runs.
C28_CycleReadsCurrentState ==
  [][\A c \in BagToSet(chains), kps \in EstimateOutcomes :
       (mounted /\ EstimateReturns(c, kps)) =>
         /\ c.cl.isDetecting = CurClosure.isDetecting
         /\ c.cl.atGate = CurClosure.atGate
         /\ c.cl.captured = CurClosure.captured]_vars

\* C29: at any time at most one detection cycle is scheduled or in flight.
C29_SingleDetectionLoop ==
  BagCardinality(chains) <= 1

\* C30: in an open session isCapturing is true exactly when the countdown
\* is non-null, and captured keypoints imply isCapturing false and a null
\* countdown.
C30_CaptureFlagsAgree ==
  mounted =>
    /\ isCapturing <=> countdown # NullCountdown
    /\ capturedKeypoints # NoKeypoints =>
         (~isCapturing /\ countdown = NullCountdown)

\* the camera streams whose tracks are still running
LiveStreams == {a \in DOMAIN streams : streams[a] = "live"}

\* C31: the session never holds more than one running camera stream, and
\* once it is closed and no getUserMedia call is pending, no stream it
\* acquired is still running.
C31_StreamsAreReleased ==
  /\ Cardinality(LiveStreams) <= 1
  /\ (~mounted /\ \A a \in DOMAIN attempts : attempts[a].cam # "gum") =>
       LiveStreams = {}

\* the tests recommended in the tests message
RecommendedTests == OfferedTests

\* C32: a generateRoutine timer is set only by a step after which every
\* recommended test is in completedTests, and generateRoutine is triggered
\* at most once.
C32_RoutineOnceAfterAllTests ==
  /\ [](routineTimers + routineCalls <= 1)
  /\ [][routineTimers' > routineTimers =>
         RecommendedTests' \subseteq CompletedSet']_vars

====
